---- MODULE Spec2Model ----
(***************************************************************************)
(* Model of the auth-service: the three in-memory stores behind their     *)
(* RwLocks and the request handlers of routes/, each cut into the atomic   *)
(* steps between two lock acquisitions.                                    *)
(***************************************************************************)
EXTENDS Integers, Naturals, Sequences, FiniteSets, TLC

VARIABLES
    jwt_secret,     \* the environment's JWT_SECRET: a value, "" or unset
    server,         \* how far main has come: starting, built, serving
    call,           \* the value-type function called last: argument and result
    user_store,     \* the UserStore boxed in AppState.user_store: hashmap or postgres
    pg,             \* the database of PostgresUserStore: the users table, the pool
    users,          \* HashmapUserStore.users
    codes,          \* HashmapTwoFACodeStore.codes
    banned_tokens,  \* HashsetBannedTokenStore.banned_tokens
    req,            \* the request each task is serving, with its locals
    resp,           \* the request answered last, with its response
    now,            \* the clock, in seconds
    next_id,        \* the next fresh login attempt id
    started,        \* number of requests received so far
    challenges,     \* history: every (email, id, code) add_code has inserted
    returned,       \* history: the attempt ids 206 responses have carried
    verified,       \* history: per attempt id, the 200 responses of verify-2fa
    created,        \* history: per email, the identities of the 201 responses
    minted          \* history: every token generate_auth_cookie has produced

vars == <<jwt_secret, server, call, user_store, pg, users, codes, banned_tokens, req, resp, now,
          next_id, started, challenges, returned, verified, created, minted>>

(* ------------------------------ bounds --------------------------------- *)

\* total number of requests the clients send in one behaviour
MaxRequests == 5
\* number of clock ticks in one behaviour
MaxTicks == 2

\* number of runs of the strings the value types are given
MaxPasswordRuns == 4
MaxEmailRuns == 5
MaxCodeRuns == 2

\* concurrent request tasks
Procs == {1, 2, 3}

(* ------------------------------ inputs --------------------------------- *)

EmailInputs == {"a@x.com", "b@x.com", "invalid email"}
PasswordInputs == {"Abcdefg1", "Zyxwvut9", "2short"}
CodeInputs == {"000000", "111111", "12ab56"}
\* a well-formed attempt id no login ever returned, and a malformed one
UnknownId == 0
MalformedId == -1

(* ------------------------------ strings -------------------------------- *)

\* A string is a sequence of runs <<c, n>>: the char c, n >= 1 times over.
\* "U+00E4" is a lowercase letter of two bytes, "U+0663" a digit that is not
\* an ASCII digit, also of two bytes.

AsciiUppercase ==
    {"A", "B", "C", "D", "E", "F", "G", "H", "I", "J", "K", "L", "M",
     "N", "O", "P", "Q", "R", "S", "T", "U", "V", "W", "X", "Y", "Z"}
AsciiLowercase ==
    {"a", "b", "c", "d", "e", "f", "g", "h", "i", "j", "k", "l", "m",
     "n", "o", "p", "q", "r", "s", "t", "u", "v", "w", "x", "y", "z"}
AsciiDigits == <<"0", "1", "2", "3", "4", "5", "6", "7", "8", "9">>

\* char::is_uppercase, char::is_lowercase, char::is_ascii_digit and
\* char::is_whitespace, each as the set of the chars it holds for; char::len_utf8
is_uppercase == AsciiUppercase
is_lowercase == AsciiLowercase \cup {"U+00E4"}
is_ascii_digit == {AsciiDigits[i] : i \in 1..10}
is_whitespace == {" "}
len_utf8(c) == IF c \in {"U+00E4", "U+0663"} THEN 2 ELSE 1

\* str::len: the length in bytes
RECURSIVE byte_len(_)
byte_len(s) ==
    IF s = <<>> THEN 0 ELSE Head(s)[2] * len_utf8(Head(s)[1]) + byte_len(Tail(s))

\* str::chars().count(): the length in Unicode scalars
RECURSIVE chars_count(_)
chars_count(s) ==
    IF s = <<>> THEN 0 ELSE Head(s)[2] + chars_count(Tail(s))

\* str::chars().any(p) and str::chars().all(p)
chars_any(s, p) == \E i \in 1..Len(s) : s[i][1] \in p
chars_all(s, p) == \A i \in 1..Len(s) : s[i][1] \in p

\* a trim that leaves the string as it is
trim_none(s) == s

\* str::trim: the string without its leading and trailing whitespace
RECURSIVE trim_start(_)
trim_start(s) ==
    IF s # <<>> /\ Head(s)[1] \in is_whitespace THEN trim_start(Tail(s)) ELSE s
RECURSIVE trim_end(_)
trim_end(s) ==
    IF s # <<>> /\ s[Len(s)][1] \in is_whitespace
    THEN trim_end(SubSeq(s, 1, Len(s) - 1)) ELSE s
trim(s) == trim_end(trim_start(s))

\* one run per char
RECURSIVE spell(_)
spell(cs) == IF cs = <<>> THEN <<>> ELSE <<<<Head(cs), 1>>>> \o spell(Tail(cs))

\* the chars of the strings the requests carry
chars(l) ==
    CASE l = "" -> <<>>
      [] l = "a@x.com" -> spell(<<"a", "@", "x", ".", "c", "o", "m">>)
      [] l = "b@x.com" -> spell(<<"b", "@", "x", ".", "c", "o", "m">>)
      [] l = "invalid email" ->
           spell(<<"i", "n", "v", "a", "l", "i", "d", " ", "e", "m", "a", "i", "l">>)
      [] l = "Abcdefg1" -> spell(<<"A", "b", "c", "d", "e", "f", "g", "1">>)
      [] l = "Zyxwvut9" -> spell(<<"Z", "y", "x", "w", "v", "u", "t", "9">>)
      [] l = "abcdefgh" -> spell(<<"a", "b", "c", "d", "e", "f", "g", "h">>)
      [] l = "2short" -> spell(<<"2", "s", "h", "o", "r", "t">>)
      [] l = "000000" -> <<<<"0", 6>>>>
      [] l = "111111" -> <<<<"1", 6>>>>
      [] l = "12ab56" -> spell(<<"1", "2", "a", "b", "5", "6">>)

Literals ==
    {"", "a@x.com", "b@x.com", "invalid email", "Abcdefg1", "Zyxwvut9",
     "abcdefgh", "2short", "000000", "111111", "12ab56"}

\* the request string that has these chars
literal(s) == CHOOSE l \in Literals : chars(l) = s

(* --------------------------- value types ------------------------------- *)

\* the validator crate's validate_email: the part before the last "@" has at
\* most 64 chars, all of the local-part alphabet; the part after it has at
\* most 255 and is dot-separated labels of 1 to 63 letters and digits
is_local_char == AsciiLowercase \cup AsciiUppercase \cup is_ascii_digit \cup {"."}
is_label_char == AsciiLowercase \cup AsciiUppercase \cup is_ascii_digit
is_domain(d) ==
    /\ d # <<>>
    /\ \A i \in 1..Len(d) :
         IF d[i][1] = "."
         THEN /\ d[i][2] = 1
              /\ i > 1 /\ i < Len(d)
              /\ d[i - 1][1] # "." /\ d[i + 1][1] # "."
         ELSE d[i][1] \in is_label_char
    /\ \A i \in 1..Len(d), j \in 1..Len(d) :
         (i <= j /\ \A k \in i..j : d[k][1] # ".") =>
            chars_count(SubSeq(d, i, j)) <= 63
validate_email(s) ==
    LET ats == {i \in 1..Len(s) : s[i][1] = "@"}
    IN  /\ ats # {}
        /\ LET at == CHOOSE i \in ats : \A j \in ats : j <= i
               user_part == SubSeq(s, 1, at - 1)
               domain_part == SubSeq(s, at + 1, Len(s))
           IN /\ s[at][2] = 1
              /\ chars_count(user_part) <= 64
              /\ chars_count(domain_part) <= 255
              /\ user_part # <<>> /\ chars_all(user_part, is_local_char)
              /\ is_domain(domain_part)

\* domain/email.rs: trim, reject empty, then validate_email
Email_parse_str(email_str) ==
    LET t == trim(email_str)
    IN  IF t = <<>> THEN [ok |-> FALSE, value |-> <<>>, err |-> "Empty"]
        ELSE IF ~validate_email(t)
             THEN [ok |-> FALSE, value |-> <<>>, err |-> "InvalidFormat"]
             ELSE [ok |-> TRUE, value |-> t, err |-> ""]

\* Email::parse of the request strings, computed once
Email_parse_literals ==
    [l \in Literals |->
        LET r == Email_parse_str(chars(l))
        IN  [ok |-> r.ok, value |-> literal(r.value), err |-> r.err]]

\* Email::parse of a request string
Email_parse(s) == Email_parse_literals[s]

\* a first failure that asks for the digit before the letters
Password_parse_str_digit_first(password) ==
    IF password = <<>> THEN [ok |-> FALSE, value |-> <<>>, err |-> "Empty"]
    ELSE IF chars_count(password) < 8
         THEN [ok |-> FALSE, value |-> <<>>, err |-> "TooShort"]
    ELSE IF chars_count(password) > 128
         THEN [ok |-> FALSE, value |-> <<>>, err |-> "TooLong"]
    ELSE IF ~chars_any(password, is_ascii_digit)
         THEN [ok |-> FALSE, value |-> <<>>, err |-> "MissingDigit"]
    ELSE IF ~chars_any(password, is_uppercase)
         THEN [ok |-> FALSE, value |-> <<>>, err |-> "MissingUppercase"]
    ELSE IF ~chars_any(password, is_lowercase)
         THEN [ok |-> FALSE, value |-> <<>>, err |-> "MissingLowercase"]
    ELSE [ok |-> TRUE, value |-> password, err |-> ""]

\* domain/password.rs: the format rules of a raw password, first failure wins
Password_parse_str(password) ==
    IF password = <<>> THEN [ok |-> FALSE, value |-> <<>>, err |-> "Empty"]
    ELSE IF chars_count(password) < 8
         THEN [ok |-> FALSE, value |-> <<>>, err |-> "TooShort"]
    ELSE IF chars_count(password) > 128
         THEN [ok |-> FALSE, value |-> <<>>, err |-> "TooLong"]
    ELSE IF ~chars_any(password, is_uppercase)
         THEN [ok |-> FALSE, value |-> <<>>, err |-> "MissingUppercase"]
    ELSE IF ~chars_any(password, is_lowercase)
         THEN [ok |-> FALSE, value |-> <<>>, err |-> "MissingLowercase"]
    ELSE IF ~chars_any(password, is_ascii_digit)
         THEN [ok |-> FALSE, value |-> <<>>, err |-> "MissingDigit"]
    ELSE [ok |-> TRUE, value |-> password, err |-> ""]

\* Password::parse of the request strings, computed once
Password_parse_literals ==
    [l \in Literals |->
        LET r == Password_parse_str(chars(l)) IN [ok |-> r.ok, err |-> r.err]]

\* Password::parse of a request string
Password_parse(s) == Password_parse_literals[s]

\* HashedPassword::parse: re-validates the raw-password rules before hashing
HashedPassword_parse(s) == Password_parse(s)

\* routes/signup.rs: the regex gate and the length gate of signup
is_valid_email(s) == s \in {"a@x.com", "b@x.com"}
is_valid_pwd_literals == [l \in Literals |-> chars_count(chars(l)) >= 8]
is_valid_pwd(s) == is_valid_pwd_literals[s]

\* domain/two_fa_code.rs: exactly six chars, all of them ASCII digits
TwoFACode_parse_str(code) ==
    IF chars_count(code) # 6
    THEN [ok |-> FALSE, value |-> <<>>, err |-> "Code must be exactly 6 digits"]
    ELSE IF ~chars_all(code, is_ascii_digit)
    THEN [ok |-> FALSE, value |-> <<>>, err |-> "Code must contain only digits (0-9)"]
    ELSE [ok |-> TRUE, value |-> code, err |-> ""]

\* TwoFACode::parse of the request strings, computed once
TwoFACode_parse_literals ==
    [l \in Literals |-> TwoFACode_parse_str(chars(l)).ok]

\* TwoFACode::parse of a request string
TwoFACode_parse(s) == TwoFACode_parse_literals[s]

\* the decimal digits of n, most significant first
RECURSIVE to_decimal(_)
to_decimal(n) ==
    IF n < 10 THEN <<AsciiDigits[n + 1]>>
    ELSE Append(to_decimal(n \div 10), AsciiDigits[(n % 10) + 1])

\* a format without the zero padding
format_plain(n) == spell(to_decimal(n))

\* format!("{:06}", n): the decimal digits, padded with zeros to six chars
format_06(n) ==
    LET d == to_decimal(n)
    IN  spell([i \in 1..(6 - Len(d)) |-> "0"] \o d)

\* the numbers random_range(0..=999_999) is drawn from here
DefaultNumbers == {0, 7, 42, 99999, 100000, 999999}

\* domain/two_fa_code.rs: TwoFACode::default for the number drawn
TwoFACode_default_str(n) == format_06(n)

\* the values TwoFACode::default() can produce
TwoFACode_default == {"000000", "111111"}

\* a parse that takes any string for an id
LoginAttemptId_parse_any(id) == TRUE

\* domain/login_attempt_id.rs: hyphenated uuid
LoginAttemptId_parse(id) == id # MalformedId
\* an id that repeats the one handed out before
LoginAttemptId_default_reused == IF next_id > 1 THEN next_id - 1 ELSE next_id

\* a fresh uuid v4: a value no earlier call returned
LoginAttemptId_default == next_id

(* ------------------------- value-type calls ---------------------------- *)

\* the strings of at most n runs
Strs(runs, n) == UNION {[1..k -> runs] : k \in 0..n}

\* raw passwords: letters, a digit, a space, a long run of a two-byte letter,
\* a digit that is not ASCII; run lengths that sum to 7, 8, 128 and 129
PasswordRuns ==
    {<<"A", 1>>, <<"a", 1>>, <<"a", 6>>, <<"a", 126>>, <<"a", 127>>, <<"1", 1>>,
     <<" ", 1>>, <<"U+00E4", 126>>, <<"U+0663", 1>>}
\* emails: whitespace, letters (a run past the 64 of the local part), "@", "."
EmailRuns == {<<" ", 1>>, <<"a", 1>>, <<"a", 65>>, <<"@", 1>>, <<".", 1>>}
\* codes: ASCII digits, a letter, digits that are not ASCII; run lengths that
\* sum to 5, 6 and 7 chars, and to 6 bytes
CodeRuns ==
    {<<"0", 1>>, <<"0", 5>>, <<"0", 6>>, <<"9", 1>>, <<"a", 1>>,
     <<"U+0663", 1>>, <<"U+0663", 3>>, <<"U+0663", 6>>}

\* Password::parse called with the string drawn
Password_parse_call ==
    /\ call.fn = "none"
    /\ call' = [call EXCEPT !.fn = "Password::parse",
                            !.ret = Password_parse_str(call.arg)]
    /\ UNCHANGED <<jwt_secret, server, user_store, pg, users, codes, banned_tokens, req, resp, now,
                   next_id, started, challenges, returned, verified, created, minted>>

\* Email::parse called with the string drawn
Email_parse_call ==
    /\ call.fn = "none"
    /\ call' = [call EXCEPT !.fn = "Email::parse",
                            !.ret = Email_parse_str(call.arg)]
    /\ UNCHANGED <<jwt_secret, server, user_store, pg, users, codes, banned_tokens, req, resp, now,
                   next_id, started, challenges, returned, verified, created, minted>>

\* TwoFACode::parse called with the string drawn
TwoFACode_parse_call ==
    /\ call.fn = "none"
    /\ call' = [call EXCEPT !.fn = "TwoFACode::parse",
                            !.ret = TwoFACode_parse_str(call.arg)]
    /\ UNCHANGED <<jwt_secret, server, user_store, pg, users, codes, banned_tokens, req, resp, now,
                   next_id, started, challenges, returned, verified, created, minted>>

\* TwoFACode::default called, with the number the generator draws
TwoFACode_default_call ==
    /\ call.fn = "none"
    /\ \E n \in DefaultNumbers :
         call' = [fn |-> "TwoFACode::default", arg |-> <<>>, rand |-> n,
                  ret |-> [ok |-> TRUE, value |-> TwoFACode_default_str(n),
                           err |-> ""]]
    /\ UNCHANGED <<jwt_secret, server, user_store, pg, users, codes, banned_tokens, req, resp, now,
                   next_id, started, challenges, returned, verified, created, minted>>

(* --------------------------- configuration ----------------------------- *)

\* the environment without a JWT_SECRET variable
NotSet == "<not set>"
\* what the environment can hold for JWT_SECRET
SecretInputs == {NotSet, "", "secret"}

\* utils/constants.rs: the variable's value; a panic if it is unset or empty
get_env_var(v) ==
    IF v = NotSet THEN [ok |-> FALSE, value |-> "", panic |-> "must be set"]
    ELSE IF v = "" THEN [ok |-> FALSE, value |-> "", panic |-> "cannot be empty"]
    ELSE [ok |-> TRUE, value |-> v, panic |-> ""]

\* utils/constants.rs: the lazy static, evaluated by the first code that reads it
JWT_SECRET == get_env_var(jwt_secret)

(* ------------------------------ tokens --------------------------------- *)

TOKEN_TTL_SECONDS == 600

EmptyToken == [form |-> "empty", sub |-> "", exp |-> 0]
GarbageToken == [form |-> "garbage", sub |-> "", exp |-> 0]

\* utils/auth.rs: a signed token binding the email and now + TTL
generate_auth_cookie(email, t) ==
    [form |-> "jwt", sub |-> email, exp |-> t + TOKEN_TTL_SECONDS]

is_banned(bt, token) == token \in bt

\* a validation that never looks at the expiry
validate_token_no_expiry(bt, token, t) ==
    IF token.form # "jwt" THEN "InvalidToken"
    ELSE IF is_banned(bt, token) THEN "InvalidToken"
    ELSE "Ok"

\* utils/auth.rs: structure and signature, expiry, then the ledger
validate_token(bt, token, t) ==
    IF token.form # "jwt" THEN "InvalidToken"
    ELSE IF t > token.exp THEN "InvalidToken"
    ELSE IF is_banned(bt, token) THEN "InvalidToken"
    ELSE "Ok"

(* ------------------------------ stores --------------------------------- *)

EmptyMap == [k \in {} |-> k]
insert(m, k, v) == [x \in DOMAIN m \cup {k} |-> IF x = k THEN v ELSE m[x]]
remove(m, k) == [x \in DOMAIN m \ {k} |-> m[x]]

User_new(email, password, flag) ==
    [email |-> email, password |-> password, requires_2fa |-> flag]

\* a flag that is never read
requires_2fa_ignored(user) == FALSE

\* a flag that is always read as set
requires_2fa_always(user) == TRUE

requires_2fa(user) == user.requires_2fa

\* an insert without the contains_key check
add_user_overwrites(us, user) ==
    [store |-> insert(us, user.email, user), result |-> "Ok"]

add_user(us, user) ==
    IF user.email \in DOMAIN us
    THEN [store |-> us, result |-> "UserAlreadyExists"]
    ELSE [store |-> insert(us, user.email, user), result |-> "Ok"]

get_user(us, email) ==
    IF email \in DOMAIN us THEN "Ok" ELSE "UserNotFound"

\* a lookup that never compares the password
validate_user_any_password(us, email, password) ==
    IF email \in DOMAIN us THEN "Ok" ELSE "UserNotFound"

validate_user(us, email, password) ==
    IF get_user(us, email) # "Ok" THEN "UserNotFound"
    ELSE IF us[email].password # password THEN "InvalidCredentials"
    ELSE "Ok"

\* HashedPassword: the PHC string of a raw password, and a string that is none
compute_password_hash(password) == <<"$argon2id", password>>
MalformedHash == <<"garbage">>
parse_password_hash(hash) == hash[1] = "$argon2id"
verify_raw_password(hash, raw_password) == hash[2] = raw_password

\* an email column that Email::parse rejects
MalformedEmail == "invalid email"

\* the database behind the pool: the rows of the users table under their
\* primary key, the email, and whether the database answers
EmptyDatabase == [rows |-> EmptyMap, up |-> TRUE]

\* services/data_stores/postgres_user_store.rs: INSERT INTO users; a constraint
\* violation is UserAlreadyExists, every other sqlx error UnexpectedError
PostgresUserStore_add_user(db, user) ==
    IF ~db.up
    THEN [store |-> db, result |-> "UnexpectedError"]
    ELSE IF user.email \in DOMAIN db.rows
    THEN [store |-> db, result |-> "UserAlreadyExists"]
    ELSE [store |-> [db EXCEPT !.rows = insert(db.rows, user.email,
                        [email |-> user.email,
                         password_hash |-> compute_password_hash(user.password),
                         requires_2fa |-> user.requires_2fa])],
          result |-> "Ok"]

\* a get_user that unwraps the parsed email and hash
PostgresUserStore_get_user_unwrap(db, email) ==
    IF ~db.up THEN "UnexpectedError"
    ELSE IF email \notin DOMAIN db.rows THEN "UserNotFound"
    ELSE IF ~Email_parse(db.rows[email].email).ok THEN "panicked"
    ELSE IF ~parse_password_hash(db.rows[email].password_hash) THEN "panicked"
    ELSE "Ok"

\* services/data_stores/postgres_user_store.rs: SELECT ... WHERE email = $1;
\* RowNotFound is UserNotFound, every other sqlx error UnexpectedError, and so
\* is a row whose email or hash does not parse
PostgresUserStore_get_user(db, email) ==
    IF ~db.up THEN "UnexpectedError"
    ELSE IF email \notin DOMAIN db.rows THEN "UserNotFound"
    ELSE IF ~Email_parse(db.rows[email].email).ok THEN "UnexpectedError"
    ELSE IF ~parse_password_hash(db.rows[email].password_hash) THEN "UnexpectedError"
    ELSE "Ok"

\* the User that get_user builds from the row
PostgresUserStore_user(db, email) ==
    [email |-> Email_parse(db.rows[email].email).value,
     password |-> db.rows[email].password_hash,
     requires_2fa |-> db.rows[email].requires_2fa]

\* services/data_stores/postgres_user_store.rs: get_user, then verify_raw_password
PostgresUserStore_validate_user(db, email, raw_password) ==
    IF PostgresUserStore_get_user(db, email) # "Ok"
    THEN PostgresUserStore_get_user(db, email)
    ELSE IF ~verify_raw_password(PostgresUserStore_user(db, email).password,
                                 raw_password)
    THEN "InvalidCredentials"
    ELSE "Ok"

\* the calls through Box<dyn UserStore>: the store that was boxed answers
UserStore_add_user(user) ==
    IF user_store = "hashmap"
    THEN [users |-> add_user(users, user).store, pg |-> pg,
          result |-> add_user(users, user).result]
    ELSE [users |-> users, pg |-> PostgresUserStore_add_user(pg, user).store,
          result |-> PostgresUserStore_add_user(pg, user).result]

UserStore_get_user(email) ==
    IF user_store = "hashmap"
    THEN get_user(users, email)
    ELSE PostgresUserStore_get_user(pg, email)

UserStore_validate_user(email, password) ==
    IF user_store = "hashmap"
    THEN validate_user(users, email, password)
    ELSE PostgresUserStore_validate_user(pg, email, password)

UserStore_user(email) ==
    IF user_store = "hashmap"
    THEN users[email]
    ELSE PostgresUserStore_user(pg, email)

\* an insert without the contains_key check
add_code_overwrites(cs, email, login_attempt_id, code) ==
    [store |-> insert(cs, email, <<login_attempt_id, code>>), result |-> "Ok"]

\* Ok, without an insert, for an email that has a record
add_code_lenient(cs, email, login_attempt_id, code) ==
    IF email \in DOMAIN cs
    THEN [store |-> cs, result |-> "Ok"]
    ELSE [store |-> insert(cs, email, <<login_attempt_id, code>>), result |-> "Ok"]

add_code(cs, email, login_attempt_id, code) ==
    IF email \in DOMAIN cs
    THEN [store |-> cs, result |-> "CodeAlreadyExists"]
    ELSE [store |-> insert(cs, email, <<login_attempt_id, code>>), result |-> "Ok"]

\* Ok without the removal
remove_code_keeps(cs, email) ==
    IF email \notin DOMAIN cs
    THEN [store |-> cs, result |-> "CodeNotFound"]
    ELSE [store |-> cs, result |-> "Ok"]

remove_code(cs, email) ==
    IF email \notin DOMAIN cs
    THEN [store |-> cs, result |-> "CodeNotFound"]
    ELSE [store |-> remove(cs, email), result |-> "Ok"]

get_code(cs, email) ==
    IF email \in DOMAIN cs THEN "Ok" ELSE "CodeNotFound"

\* a ledger that remembers the last token only
ban_token_replaces(bt, token) ==
    IF token \in bt
    THEN [store |-> bt, result |-> "TokenAlreadyBanned"]
    ELSE [store |-> {token}, result |-> "Ok"]

\* Ok without the insert
ban_token_forgets(bt, token) ==
    IF token \in bt
    THEN [store |-> bt, result |-> "TokenAlreadyBanned"]
    ELSE [store |-> bt, result |-> "Ok"]

\* Ok for a token that is already in the ledger
ban_token_idempotent(bt, token) ==
    [store |-> bt \cup {token}, result |-> "Ok"]

ban_token(bt, token) ==
    IF token \in bt
    THEN [store |-> bt, result |-> "TokenAlreadyBanned"]
    ELSE [store |-> bt \cup {token}, result |-> "Ok"]

(* --------------------------- error mapping ----------------------------- *)

\* every error answered as a partial success
StatusOf_partial(err) == 206

\* domain/error.rs: AuthAPIError::into_response
StatusOf(err) ==
    CASE err = "InvalidCredentials" -> 400
      [] err = "MissingToken" -> 400
      [] err = "Unauthorized" -> 401
      [] err = "InvalidToken" -> 401
      [] err = "UserNotFound" -> 404
      [] err = "UserAlreadyExists" -> 409
      [] err = "UnprocessableContent" -> 422
      [] err = "UnexpectedError" -> 500

\* domain/error.rs: the message of the error body
MessageOf(err) ==
    CASE err = "InvalidCredentials" -> "Invalid credentials"
      [] err = "MissingToken" -> "Missing JWT auth token"
      [] err = "Unauthorized" -> "Unauthorized"
      [] err = "InvalidToken" -> "Invalid JWT auth token"
      [] err = "UserNotFound" -> "User not found"
      [] err = "UserAlreadyExists" -> "User already exists"
      [] err = "UnprocessableContent" -> "Unprocessable content"
      [] err = "UnexpectedError" -> "Unexpected error"

\* both store errors mapped to 401
FromTwoFACodeStoreError_unauthorized(err) == "Unauthorized"

\* both store errors mapped to the conflict
FromTwoFACodeStoreError_conflict(err) == "UserAlreadyExists"

\* domain/error.rs: From<TwoFACodeStoreError> for AuthAPIError
FromTwoFACodeStoreError(err) ==
    IF err = "CodeNotFound" THEN "Unauthorized" ELSE "UserAlreadyExists"

\* both logout errors mapped to InvalidToken
FromLogoutError_invalid_token(err) == "InvalidToken"

\* domain/error.rs: From<LogoutError> for AuthAPIError
FromLogoutError(err) ==
    IF err = "MissingToken" THEN "MissingToken" ELSE "InvalidToken"

\* domain/error.rs: From<UserStoreError> for AuthAPIError
FromUserStoreError(err) ==
    CASE err = "UserNotFound" -> "UserNotFound"
      [] err = "InvalidCredentials" -> "InvalidCredentials"
      [] err = "UserAlreadyExists" -> "UserAlreadyExists"
      [] err = "UnexpectedError" -> "UnexpectedError"

\* domain/error.rs: From<TokenError> for AuthAPIError
FromTokenError(err) ==
    CASE err = "InvalidToken" -> "InvalidToken"
      [] err = "MalformedInput" -> "UnprocessableContent"

\* the variants of the error enums
AuthAPIErrors ==
    {"InvalidCredentials", "MissingToken", "Unauthorized", "InvalidToken",
     "UserNotFound", "UserAlreadyExists", "UnprocessableContent",
     "UnexpectedError"}
UserStoreErrors ==
    {"UserAlreadyExists", "UserNotFound", "InvalidCredentials", "UnexpectedError"}
TwoFACodeStoreErrors == {"CodeNotFound", "CodeAlreadyExists"}
LogoutErrors == {"MissingToken", "InvalidToken"}
TokenErrors == {"InvalidToken", "MalformedInput"}

(* ------------------------------ cookies -------------------------------- *)

\* a jar whose cookie is never removed
jar_remove_keeps(jar) == jar

\* CookieJar::remove of the cookie named JWT_COOKIE_NAME: the client drops it
jar_remove(jar) == {}

(* ----------------------------- requests -------------------------------- *)

NoStored == <<UnknownId, "">>

Idle ==
    [kind |-> "none", pc |-> "idle", email |-> "", password |-> "",
     requires_2fa |-> FALSE, login_attempt_id |-> UnknownId, code |-> "",
     token |-> EmptyToken, jar_in |-> {}, jar |-> {}, status |-> 0,
     error |-> "", resp_id |-> UnknownId, stored |-> NoStored,
     prior |-> FALSE, emailed |-> "", store_result |-> "", removed |-> NoStored]

Done(r, status, error) ==
    [r EXCEPT !.pc = "done", !.status = status, !.error = error, !.password = ""]
Fail(r, err) == Done(r, StatusOf(err), err)

\* the task that takes the next request: the lowest one not serving a request
Free(p) ==
    /\ server = "serving"
    /\ req[p].pc = "idle"
    /\ \A q \in Procs : q < p => req[q].pc # "idle"
    /\ started < MaxRequests

\* task p goes on as r; a task that has answered (or panicked) ends, and resp
\* holds the request it served together with its response
Step(p, r) ==
    IF r.pc \in {"done", "panicked"}
    THEN /\ req' = [req EXCEPT ![p] = Idle]
         /\ resp' = r
    ELSE /\ req' = [req EXCEPT ![p] = r]
         /\ UNCHANGED resp

\* tasks that hold the read lock of the user store (login keeps it to its end)
UserReaders == {p \in Procs : req[p].pc \in {"login_add_code", "login_send_email"}}

JarInputs == {{}, {EmptyToken}, {GarbageToken}} \cup {{t} : t \in minted}

\* no value-type function called yet
NoCall ==
    [fn |-> "none", arg |-> <<>>, rand |-> 0,
     ret |-> [ok |-> FALSE, value |-> <<>>, err |-> ""]]

\* the stores and the tasks when main has built them
Init ==
    /\ jwt_secret = "secret"
    /\ server = "serving"
    /\ call = NoCall
    /\ user_store = "hashmap"
    /\ pg = EmptyDatabase
    /\ users = EmptyMap
    /\ codes = EmptyMap
    /\ banned_tokens = {}
    /\ req = [p \in Procs |-> Idle]
    /\ resp = Idle
    /\ now = 0
    /\ next_id = 1
    /\ started = 0
    /\ challenges = {}
    /\ returned = {}
    /\ verified = EmptyMap
    /\ created = EmptyMap
    /\ minted = {}


(* --------------------------- POST /signup ------------------------------ *)

\* routes/signup.rs: the format gate and the existence check under the read lock
handle_signup(p, email, password, flag) ==
    /\ Free(p)
    /\ started' = started + 1
    /\ LET r == [Idle EXCEPT !.kind = "signup", !.email = email,
                             !.password = password, !.requires_2fa = flag]
       IN Step(p,
            IF ~is_valid_email(email) \/ ~is_valid_pwd(password)
            THEN Fail(r, "InvalidCredentials")
            ELSE IF UserStore_get_user(email) = "Ok"
            THEN Fail(r, "UserAlreadyExists")
            ELSE [r EXCEPT !.pc = "signup_add_user"])
    /\ UNCHANGED <<jwt_secret, server, call, user_store, pg>>
    /\ UNCHANGED <<users, codes, banned_tokens, now, next_id, challenges,
                   returned, verified, created, minted>>

\* routes/signup.rs: add_user under the write lock of the user store
signup_add_user(p) ==
    /\ req[p].pc = "signup_add_user"
    /\ UserReaders = {}
    /\ LET r == req[p]
           user == User_new(r.email, r.password, r.requires_2fa)
           res == UserStore_add_user(user)
       IN /\ users' = res.users
          /\ pg' = res.pg
          /\ IF res.result = "Ok"
             THEN /\ Step(p, Done([r EXCEPT !.store_result = res.result], 201, ""))
                  /\ created' = insert(created, r.email,
                        IF r.email \in DOMAIN created
                        THEN Append(created[r.email], user) ELSE <<user>>)
             ELSE /\ Step(p, Fail([r EXCEPT !.store_result = res.result],
                                   "UserAlreadyExists"))
                  /\ UNCHANGED created
    /\ UNCHANGED <<jwt_secret, server, call, user_store>>
    /\ UNCHANGED <<codes, banned_tokens, now, next_id, started, challenges,
                   returned, verified, minted>>

(* ---------------------------- POST /login ------------------------------ *)

\* routes/login.rs: handle_login up to the 2FA branch, handle_no_2fa included
handle_login(p, email, password, jar) ==
    /\ Free(p)
    /\ started' = started + 1
    /\ LET r == [Idle EXCEPT !.kind = "login", !.email = email,
                             !.password = password, !.jar_in = jar, !.jar = jar]
           parsed == Email_parse(email)
           token == generate_auth_cookie(parsed.value, now)
       IN IF ~parsed.ok
          THEN /\ Step(p, Fail(r, "InvalidCredentials"))
               /\ UNCHANGED minted
          ELSE IF ~HashedPassword_parse(password).ok
          THEN /\ Step(p, Fail(r, "InvalidCredentials"))
               /\ UNCHANGED minted
          ELSE IF UserStore_validate_user(parsed.value, password) # "Ok"
          THEN /\ Step(p, Fail(r, "Unauthorized"))
               /\ UNCHANGED minted
          ELSE IF UserStore_get_user(parsed.value) # "Ok"
          THEN /\ Step(p, Fail(r, "InvalidCredentials"))
               /\ UNCHANGED minted
          ELSE IF requires_2fa(UserStore_user(parsed.value))
          THEN /\ Step(p,
                     [r EXCEPT !.pc = "login_add_code", !.email = parsed.value,
                               !.requires_2fa = TRUE])
               /\ UNCHANGED minted
          ELSE IF ~JWT_SECRET.ok
          THEN /\ Step(p, [r EXCEPT !.pc = "panicked", !.email = parsed.value,
                                     !.error = JWT_SECRET.panic])
               /\ UNCHANGED minted
          ELSE /\ Step(p,
                     Done([r EXCEPT !.email = parsed.value, !.jar = {token},
                                    !.token = token], 200, ""))
               /\ minted' = minted \cup {token}
    /\ UNCHANGED <<jwt_secret, server, call, user_store, pg>>
    /\ UNCHANGED <<users, codes, banned_tokens, now, next_id, challenges,
                   returned, verified, created>>

\* routes/login.rs: handle_2fa, the fresh id and code and add_code under the write lock
handle_2fa_add_code(p) ==
    /\ req[p].pc = "login_add_code"
    /\ \E code \in TwoFACode_default :
         LET r == [req[p] EXCEPT !.prior = (req[p].email \in DOMAIN codes)]
             id == LoginAttemptId_default
             res == add_code(codes, r.email, id, code)
         IN /\ codes' = res.store
            /\ IF res.result = "Ok"
               THEN /\ Step(p,
                          [r EXCEPT !.pc = "login_send_email",
                                    !.login_attempt_id = id, !.code = code,
                                    !.store_result = res.result])
                    /\ next_id' = next_id + 1
                    /\ challenges' = challenges \cup {<<r.email, id, code>>}
               ELSE /\ Step(p,
                          Fail([r EXCEPT !.store_result = res.result],
                               FromTwoFACodeStoreError("CodeAlreadyExists")))
                    /\ UNCHANGED <<next_id, challenges>>
    /\ UNCHANGED <<jwt_secret, server, call, user_store, pg>>
    /\ UNCHANGED <<users, banned_tokens, now, started, returned, verified, created,
                   minted>>

\* routes/login.rs: handle_2fa, the email dispatch and the 206 response
handle_2fa_send_email(p) ==
    /\ req[p].pc = "login_send_email"
    /\ \E send_email_result \in {"Ok", "Err"} :
         LET r == [req[p] EXCEPT !.emailed = send_email_result]
         IN IF send_email_result = "Ok"
            THEN /\ Step(p, Done([r EXCEPT !.resp_id = r.login_attempt_id], 206, ""))
                 /\ returned' = returned \cup {r.login_attempt_id}
            ELSE /\ Step(p, Fail(r, "UnexpectedError"))
                 /\ UNCHANGED returned
    /\ UNCHANGED <<jwt_secret, server, call, user_store, pg>>
    /\ UNCHANGED <<users, codes, banned_tokens, now, next_id, started,
                   challenges, verified, created, minted>>

(* -------------------------- POST /verify-2fa --------------------------- *)

\* the (email, attempt id, code) triples a successful verify-2fa has presented
Consumed == {c \in challenges : c[2] \in DOMAIN verified}

\* routes/verify_2fa.rs: verify_payload, get_code under the read lock, the comparison
handle_verify_2fa(p, email, login_attempt_id, code, jar) ==
    /\ Free(p)
    /\ started' = started + 1
    /\ LET r == [Idle EXCEPT !.kind = "verify_2fa", !.email = email,
                             !.login_attempt_id = login_attempt_id, !.code = code,
                             !.jar_in = jar, !.jar = jar,
                             !.prior = <<email, login_attempt_id, code>> \in Consumed]
           parsed == Email_parse(email)
       IN Step(p,
            IF \/ ~parsed.ok
               \/ ~LoginAttemptId_parse(login_attempt_id)
               \/ ~TwoFACode_parse(code)
            THEN Fail(r, "InvalidCredentials")
            ELSE IF get_code(codes, parsed.value) # "Ok"
            THEN Fail(r, FromTwoFACodeStoreError("CodeNotFound"))
            ELSE IF \/ login_attempt_id # codes[parsed.value][1]
                    \/ code # codes[parsed.value][2]
            THEN Fail(r, "Unauthorized")
            ELSE [r EXCEPT !.pc = "verify_remove_code",
                           !.stored = codes[parsed.value]])
    /\ UNCHANGED <<jwt_secret, server, call, user_store, pg>>
    /\ UNCHANGED <<users, codes, banned_tokens, now, next_id, challenges,
                   returned, verified, created, minted>>

\* routes/verify_2fa.rs: remove_code under the write lock, .expect on its result
verify_2fa_remove_code(p) ==
    /\ req[p].pc = "verify_remove_code"
    /\ LET r == req[p]
           res == remove_code(codes, r.email)
       IN /\ codes' = res.store
          /\ Step(p,
               IF res.result = "Ok"
               THEN [r EXCEPT !.pc = "verify_issue", !.removed = codes[r.email],
                              !.store_result = res.result]
               ELSE [r EXCEPT !.pc = "panicked", !.store_result = res.result])
    /\ UNCHANGED <<jwt_secret, server, call, user_store, pg>>
    /\ UNCHANGED <<users, banned_tokens, now, next_id, started, challenges,
                   returned, verified, created, minted>>

\* routes/verify_2fa.rs: generate_auth_cookie, jar.add and the 200 response
verify_2fa_issue(p) ==
    /\ req[p].pc = "verify_issue"
    /\ LET r == req[p]
           token == generate_auth_cookie(r.email, now)
           id == r.login_attempt_id
       IN IF ~JWT_SECRET.ok
          THEN /\ Step(p, [r EXCEPT !.pc = "panicked", !.error = JWT_SECRET.panic])
               /\ UNCHANGED <<minted, verified>>
          ELSE /\ Step(p,
                     Done([r EXCEPT !.jar = {token}, !.token = token], 200, ""))
               /\ minted' = minted \cup {token}
               /\ verified' = insert(verified, id,
                     IF id \in DOMAIN verified THEN verified[id] + 1 ELSE 1)
    /\ UNCHANGED <<jwt_secret, server, call, user_store, pg>>
    /\ UNCHANGED <<users, codes, banned_tokens, now, next_id, started,
                   challenges, returned, created>>

(* ---------------------------- POST /logout ----------------------------- *)

\* routes/logout.rs: the cookie lookup, the empty check and validate_token
handle_logout(p, jar) ==
    /\ Free(p)
    /\ started' = started + 1
    /\ LET r == [Idle EXCEPT !.kind = "logout", !.jar_in = jar, !.jar = jar]
       IN Step(p,
            IF jar = {}
            THEN Fail(r, FromLogoutError("MissingToken"))
            ELSE LET token == CHOOSE t \in jar : TRUE
                     rt == [r EXCEPT !.token = token,
                                     !.prior = is_banned(banned_tokens, token)]
                 IN IF token.form = "empty"
                    THEN Fail(rt, FromLogoutError("InvalidToken"))
                    ELSE IF ~JWT_SECRET.ok
                    THEN [rt EXCEPT !.pc = "panicked", !.error = JWT_SECRET.panic]
                    ELSE IF validate_token(banned_tokens, token, now) # "Ok"
                    THEN Fail(rt, FromLogoutError("InvalidToken"))
                    ELSE [rt EXCEPT !.pc = "logout_ban_token"])
    /\ UNCHANGED <<jwt_secret, server, call, user_store, pg>>
    /\ UNCHANGED <<users, codes, banned_tokens, now, next_id, challenges,
                   returned, verified, created, minted>>

\* routes/logout.rs: ban_token under the write lock, then the removal cookie
logout_ban_token(p) ==
    /\ req[p].pc = "logout_ban_token"
    /\ LET res == ban_token(banned_tokens, req[p].token)
           r == [req[p] EXCEPT !.prior = is_banned(banned_tokens, req[p].token),
                               !.store_result = res.result]
       IN /\ banned_tokens' = res.store
          /\ Step(p,
               IF res.result = "Ok"
               THEN Done([r EXCEPT !.jar = jar_remove(r.jar)], 200, "")
               ELSE Fail(r, FromLogoutError("InvalidToken")))
    /\ UNCHANGED <<jwt_secret, server, call, user_store, pg>>
    /\ UNCHANGED <<users, codes, now, next_id, started, challenges, returned,
                   verified, created, minted>>

(* ------------------------- POST /verify-token -------------------------- *)

\* routes/verify_token.rs: the handler answers 200 whatever the token is
handle_verify_token(p, token) ==
    /\ Free(p)
    /\ started' = started + 1
    /\ Step(p,
         Done([Idle EXCEPT !.kind = "verify_token", !.token = token,
                           !.prior = is_banned(banned_tokens, token)], 200, ""))
    /\ UNCHANGED <<jwt_secret, server, call, user_store, pg>>
    /\ UNCHANGED <<users, codes, banned_tokens, now, next_id, challenges,
                   returned, verified, created, minted>>

(* ------------------------------- clock --------------------------------- *)

Tick ==
    /\ now < MaxTicks * TOKEN_TTL_SECONDS
    /\ now' = now + TOKEN_TTL_SECONDS
    /\ UNCHANGED <<jwt_secret, server, call, user_store, pg>>
    /\ UNCHANGED <<users, codes, banned_tokens, req, resp, next_id, started,
                   challenges, returned, verified, created, minted>>

(* ------------------------------ startup -------------------------------- *)

\* main.rs: the stores, the state and Application::build (the CORS origins,
\* the router and the listener); nothing here reads JWT_SECRET
Application_build ==
    /\ server = "starting"
    /\ server' = "built"
    /\ UNCHANGED <<jwt_secret, call, user_store, pg, users, codes, banned_tokens, req, resp, now,
                   next_id, started, challenges, returned, verified, created, minted>>

\* lib.rs: Application::run, the server accepts requests
Application_run ==
    /\ server = "built"
    /\ server' = "serving"
    /\ UNCHANGED <<jwt_secret, call, user_store, pg, users, codes, banned_tokens, req, resp, now,
                   next_id, started, challenges, returned, verified, created, minted>>

(* --------------------------- specifications ---------------------------- *)

\* the emails and passwords a signup is sent with: "b@x.com" stays unregistered
SignupEmails == {"a@x.com", "invalid email"}
SignupPasswords == {"Abcdefg1", "2short"}

Signup ==
    \E p \in Procs :
       \/ \E e \in SignupEmails, pw \in SignupPasswords, f \in BOOLEAN :
             handle_signup(p, e, pw, f)
       \/ signup_add_user(p)

Login ==
    \E p \in Procs :
       \/ \E e \in EmailInputs, pw \in PasswordInputs : handle_login(p, e, pw, {})
       \/ handle_2fa_add_code(p)
       \/ handle_2fa_send_email(p)

Verify2FA ==
    \E p \in Procs :
       \/ \E e \in EmailInputs, c \in CodeInputs,
             id \in returned \cup {UnknownId, MalformedId} :
             handle_verify_2fa(p, e, id, c, {})
       \/ verify_2fa_remove_code(p)
       \/ verify_2fa_issue(p)

Logout ==
    \E p \in Procs :
       \/ \E jar \in JarInputs : handle_logout(p, jar)
       \/ logout_ban_token(p)

VerifyToken ==
    \E p \in Procs, t \in minted \cup {GarbageToken} : handle_verify_token(p, t)

Next == Signup \/ Login \/ Verify2FA \/ Logout \/ VerifyToken \/ Tick

Spec == Init /\ [][Next]_vars

\* the 2FA login flow: signup, login and verify-2fa requests
NextTwoFA == Signup \/ Login \/ Verify2FA

SpecTwoFA == Init /\ [][NextTwoFA]_vars

\* the token flow: signup, login, logout and verify-token requests, and the clock
NextToken == Signup \/ Login \/ Logout \/ VerifyToken \/ Tick

SpecToken == Init /\ [][NextToken]_vars

\* the signup and login flow with raw passwords of every shape: one that
\* passes every rule, one of eight chars with no uppercase letter and no digit,
\* and one that is too short
RawPasswords == {"Abcdefg1", "abcdefgh", "2short"}

SignupRaw ==
    \E p \in Procs :
       \/ \E e \in SignupEmails, pw \in RawPasswords, f \in BOOLEAN :
             handle_signup(p, e, pw, f)
       \/ signup_add_user(p)

LoginRaw ==
    \E p \in Procs :
       \/ \E e \in EmailInputs, pw \in RawPasswords : handle_login(p, e, pw, {})
       \/ handle_2fa_add_code(p)
       \/ handle_2fa_send_email(p)

NextRoundTrip == SignupRaw \/ LoginRaw

SpecRoundTrip == Init /\ [][NextRoundTrip]_vars

\* the requests that work on identities: signup, login, verify-2fa and logout
NextIdentity == Signup \/ Login \/ Verify2FA \/ Logout

SpecIdentity == Init /\ [][NextIdentity]_vars

\* the steps a task takes after its first await: each waits for one lock (or
\* for the email client) and holds no other lock while it waits, except
\* handle_2fa_add_code, which waits for the write lock of the code store with
\* the read guard of the user store (routes/login.rs:38) still alive
Resume(p) ==
    \/ signup_add_user(p)
    \/ handle_2fa_add_code(p)
    \/ handle_2fa_send_email(p)
    \/ verify_2fa_remove_code(p)
    \/ verify_2fa_issue(p)
    \/ logout_ban_token(p)

\* the identity requests under the tokio scheduler: a task that can go on is
\* polled again, and a lock that is free is granted to a waiting task
SpecFair == Init /\ [][NextIdentity]_vars /\ \A p \in Procs : WF_vars(Resume(p))

\* the value types on their own: a string is drawn, then parsed
NoRequests ==
    /\ jwt_secret = "secret"
    /\ server = "serving"
    /\ user_store = "hashmap"
    /\ pg = EmptyDatabase
    /\ users = EmptyMap
    /\ codes = EmptyMap
    /\ banned_tokens = {}
    /\ req = [p \in Procs |-> Idle]
    /\ resp = Idle
    /\ now = 0
    /\ next_id = 1
    /\ started = 0
    /\ challenges = {}
    /\ returned = {}
    /\ verified = EmptyMap
    /\ created = EmptyMap
    /\ minted = {}

InitPassword ==
    /\ call \in {[NoCall EXCEPT !.arg = s] : s \in Strs(PasswordRuns, MaxPasswordRuns)}
    /\ NoRequests

NextPassword == Password_parse_call

SpecPassword == InitPassword /\ [][NextPassword]_vars

InitEmail ==
    /\ call \in {[NoCall EXCEPT !.arg = s] : s \in Strs(EmailRuns, MaxEmailRuns)}
    /\ NoRequests

NextEmail == Email_parse_call

SpecEmail == InitEmail /\ [][NextEmail]_vars

InitTwoFACode ==
    /\ call \in {[NoCall EXCEPT !.arg = s] : s \in Strs(CodeRuns, MaxCodeRuns)}
    /\ NoRequests

NextTwoFACode == TwoFACode_parse_call \/ TwoFACode_default_call

SpecTwoFACode == InitTwoFACode /\ [][NextTwoFACode]_vars

\* the process from its start, with whatever the environment holds for
\* JWT_SECRET: startup, then signup, login and logout requests
InitStartup ==
    /\ jwt_secret \in SecretInputs
    /\ server = "starting"
    /\ call = NoCall
    /\ user_store = "hashmap"
    /\ pg = EmptyDatabase
    /\ users = EmptyMap
    /\ codes = EmptyMap
    /\ banned_tokens = {}
    /\ req = [p \in Procs |-> Idle]
    /\ resp = Idle
    /\ now = 0
    /\ next_id = 1
    /\ started = 0
    /\ challenges = {}
    /\ returned = {}
    /\ verified = EmptyMap
    /\ created = EmptyMap
    /\ minted = {}

Startup == Application_build \/ Application_run

NextStartup == Startup \/ Signup \/ Login \/ Logout

SpecStartup == InitStartup /\ [][NextStartup]_vars

\* the two user stores called side by side with the same arguments, as a
\* conformance test of the UserStore trait calls them; the database can be
\* out of reach and a row can be rewritten behind the store's back
StoreEmails == {"a@x.com", "b@x.com"}
StorePasswords == {"Abcdefg1", "Zyxwvut9"}

InitStores ==
    /\ jwt_secret = "secret"
    /\ server = "serving"
    /\ call = NoCall
    /\ user_store = "postgres"
    /\ pg = EmptyDatabase
    /\ users = EmptyMap
    /\ codes = EmptyMap
    /\ banned_tokens = {}
    /\ req = [p \in Procs |-> Idle]
    /\ resp = Idle
    /\ now = 0
    /\ next_id = 1
    /\ started = 0
    /\ challenges = {}
    /\ returned = {}
    /\ verified = EmptyMap
    /\ created = EmptyMap
    /\ minted = {}

\* the record of a call: its arguments and what each store returned
StoreCall(fn, email, password, hashmap, postgres) ==
    [fn |-> fn, arg |-> <<email, password>>, rand |-> 0,
     ret |-> [hashmap |-> hashmap, postgres |-> postgres]]

add_user_call ==
    /\ started < MaxRequests
    /\ started' = started + 1
    /\ \E e \in StoreEmails, pw \in StorePasswords, f \in BOOLEAN :
         LET user == User_new(e, pw, f)
         IN /\ users' = add_user(users, user).store
            /\ pg' = PostgresUserStore_add_user(pg, user).store
            /\ call' = StoreCall("UserStore::add_user", e, pw,
                                 add_user(users, user).result,
                                 PostgresUserStore_add_user(pg, user).result)
    /\ UNCHANGED <<jwt_secret, server, user_store, codes, banned_tokens, req,
                   resp, now, next_id, challenges, returned, verified, created,
                   minted>>

get_user_call ==
    /\ started < MaxRequests
    /\ started' = started + 1
    /\ \E e \in StoreEmails :
         call' = StoreCall("UserStore::get_user", e, "",
                           get_user(users, e), PostgresUserStore_get_user(pg, e))
    /\ UNCHANGED <<jwt_secret, server, user_store, pg, users, codes,
                   banned_tokens, req, resp, now, next_id, challenges, returned,
                   verified, created, minted>>

validate_user_call ==
    /\ started < MaxRequests
    /\ started' = started + 1
    /\ \E e \in StoreEmails, pw \in StorePasswords :
         call' = StoreCall("UserStore::validate_user", e, pw,
                           validate_user(users, e, pw),
                           PostgresUserStore_validate_user(pg, e, pw))
    /\ UNCHANGED <<jwt_secret, server, user_store, pg, users, codes,
                   banned_tokens, req, resp, now, next_id, challenges, returned,
                   verified, created, minted>>

\* a row whose email or hash no longer parses
Malformed(row) ==
    \/ row.email = MalformedEmail
    \/ row.password_hash = MalformedHash

\* a persisted row is rewritten by something other than the store: its hash
\* column, or its email column, which is the key the row is found under
Corrupt ==
    /\ \E e \in DOMAIN pg.rows :
         /\ ~Malformed(pg.rows[e])
         /\ \/ /\ MalformedEmail \notin DOMAIN pg.rows
               /\ pg' = [pg EXCEPT !.rows =
                            insert(remove(pg.rows, e), MalformedEmail,
                                   [pg.rows[e] EXCEPT !.email = MalformedEmail])]
            \/ pg' = [pg EXCEPT !.rows[e].password_hash = MalformedHash]
    /\ UNCHANGED <<jwt_secret, server, call, user_store, users, codes,
                   banned_tokens, req, resp, now, next_id, started, challenges,
                   returned, verified, created, minted>>

\* the database goes out of reach, or comes back
Outage ==
    /\ pg' = [pg EXCEPT !.up = ~pg.up]
    /\ UNCHANGED <<jwt_secret, server, call, user_store, users, codes,
                   banned_tokens, req, resp, now, next_id, started, challenges,
                   returned, verified, created, minted>>

NextStores ==
    add_user_call \/ get_user_call \/ validate_user_call \/ Corrupt \/ Outage

SpecStores == InitStores /\ [][NextStores]_vars

\* the service with PostgresUserStore boxed as its user store: signup and
\* login requests, and rows rewritten behind the store's back
NextDurable == Signup \/ Login \/ Corrupt

SpecDurable == InitStores /\ [][NextDurable]_vars

(* ------------------------------- claims -------------------------------- *)

TwoFA(e) == e \in DOMAIN users /\ users[e].requires_2fa

\* the request task p is serving after this step, or has just answered
Taken(p) == IF req'[p] = Idle THEN resp' ELSE req'[p]

\* task p takes a request of kind k in this step
Started(p, k) == Free(p) /\ started' # started /\ Taken(p).kind = k

\* C1: a 2FA challenge is single-use.  A verify-2fa request that arrives after
\* a verify-2fa with the identical (email, attempt id, code) has succeeded is
\* answered 401; the record a successful verify-2fa presented is never in the
\* store again; and the remove_code of a verify-2fa leaves no record for the email.
C1_ChallengeSingleUse ==
    /\ [](/\ (resp.kind = "verify_2fa" /\ resp.prior) =>
                (resp.pc = "done" /\ resp.status = 401)
          /\ \A c \in Consumed :
                ~(c[1] \in DOMAIN codes /\ codes[c[1]] = <<c[2], c[3]>>))
    /\ [][\A p \in Procs :
            (req[p].pc = "verify_remove_code" /\ req'[p].pc = "verify_issue") =>
               req[p].email \notin DOMAIN codes']_vars

C1_Witness ==
    /\ resp.kind = "verify_2fa" /\ resp.prior /\ resp.status = 401
    /\ resp.email \notin DOMAIN codes

\* C2: each challenge record leads to at most one token: no two verify-2fa
\* requests that presented the pair of the same record are both answered 200.
C2_OneTokenPerChallenge ==
    \A id \in DOMAIN verified : verified[id] <= 1

\* C3: for an identity with requires_2fa, login issues no token and leaves the
\* cookie jar as it was; every 200 for that email is a verify-2fa whose
\* (attempt id, code) matched a record add_code had inserted for the email, and
\* every token minted for the email is backed by such a verify-2fa.
C3_TokenOnlyAfterSecondFactor ==
    /\ (resp.kind = "login" /\ TwoFA(resp.email)) =>
          /\ resp.status # 200
          /\ resp.token = EmptyToken
          /\ resp.jar = resp.jar_in
          /\ resp.status = 206 => resp.resp_id \in returned
    /\ (resp.kind \in {"login", "verify_2fa"} /\ resp.status = 200
          /\ TwoFA(resp.email)) =>
          /\ resp.kind = "verify_2fa"
          /\ <<resp.email, resp.login_attempt_id, resp.code>> \in challenges
          /\ resp.stored = <<resp.login_attempt_id, resp.code>>
    /\ \A t \in minted : TwoFA(t.sub) => \E c \in Consumed : c[1] = t.sub

C3_Witness ==
    /\ resp.kind = "verify_2fa" /\ resp.status = 200 /\ TwoFA(resp.email)
    /\ resp.token \in minted

\* C4: revocation is effective: a verify-token request presenting a token that
\* a successful logout has put in the ledger is answered 401.
C4_RevocationEffective ==
    (resp.kind = "verify_token" /\ resp.prior) => resp.status = 401

\* C5: verify-token answers 200 only for a token that passes validation
\* (well-formed and signed, not expired, not in the ledger).
C5_VerifyTokenValidates ==
    [][(started' = started + 1 /\ resp'.kind = "verify_token"
          /\ resp'.status = 200) =>
          validate_token(banned_tokens, resp'.token, now) = "Ok"]_vars

\* C6: the ledger is monotonic: no step removes a token from it; a ban_token
\* that answered Ok has put the token in it; and a ban_token of a token that
\* is already in it answers TokenAlreadyBanned and leaves the ledger unchanged.
C6_LedgerMonotonic ==
    /\ [](resp.kind = "logout" =>
            /\ resp.store_result = "Ok" =>
                  (~resp.prior /\ resp.token \in banned_tokens)
            /\ (resp.store_result # "" /\ resp.prior) =>
                  resp.store_result = "TokenAlreadyBanned")
    /\ [][/\ banned_tokens \subseteq banned_tokens'
          /\ \A p \in Procs :
               (req[p].pc = "logout_ban_token" /\ req'[p].pc = "idle"
                  /\ req[p].token \in banned_tokens) =>
                  (banned_tokens' = banned_tokens
                     /\ resp'.store_result = "TokenAlreadyBanned")]_vars

C6_Witness ==
    /\ resp.kind = "logout" /\ resp.store_result = "TokenAlreadyBanned"
    /\ resp.token \in banned_tokens

\* C7: of the signups sent with one email exactly one is answered 201 and
\* every other one 409, however they interleave; the stored identity is the
\* one of the request that was answered 201.
C7_SignupRace ==
    /\ DOMAIN created = DOMAIN users
    /\ \A e \in DOMAIN created :
          Len(created[e]) = 1 /\ users[e] = created[e][1]
    /\ (resp.kind = "signup" /\ resp.pc = "done"
          /\ is_valid_email(resp.email) /\ resp.status # 400) =>
          /\ resp.status \in {201, 409}
          /\ resp.email \in DOMAIN created
          /\ resp.status = 201 =>
                \E pw \in SignupPasswords \cup RawPasswords :
                   users[resp.email] = User_new(resp.email, pw, resp.requires_2fa)

C7_Witness ==
    /\ resp.kind = "signup" /\ resp.status = 409
    /\ resp.store_result = "UserAlreadyExists"
    /\ \E p \in Procs : req[p].pc = "signup_add_user" /\ req[p].email = resp.email

\* C8: at most one outstanding challenge per email: add_code for an email that
\* has a record answers CodeAlreadyExists and leaves the store as it was; no
\* step replaces a record by another; add_code inserts only when the email has
\* no record, and a record leaves the store only through remove_code.
C8_OneChallengePerEmail ==
    [][/\ \A e \in DOMAIN codes \cap DOMAIN codes' : codes'[e] = codes[e]
       /\ \A e \in DOMAIN codes \ DOMAIN codes' :
            \E p \in Procs : req[p].pc = "verify_remove_code" /\ req[p].email = e
       /\ \A p \in Procs :
            (req[p].pc = "login_add_code" /\ req'[p].pc # "login_add_code") =>
               IF req[p].email \in DOMAIN codes
               THEN /\ codes' = codes
                    /\ req'[p] = Idle
                    /\ resp'.store_result = "CodeAlreadyExists"
               ELSE /\ req'[p].store_result = "Ok"
                    /\ codes' = insert(codes, req[p].email,
                          <<req'[p].login_attempt_id, req'[p].code>>)]_vars

C8_Witness ==
    /\ resp.kind = "login" /\ resp.store_result = "CodeAlreadyExists"
    /\ resp.email \in DOMAIN codes
    /\ Cardinality(challenges) >= 2

\* C9: a correct login for a 2FA identity with no outstanding challenge whose
\* email dispatch succeeds is answered 206 with a loginAttemptId, and after the
\* response the store holds for the email a record with the returned attempt id.
C9_ChallengeIssued ==
    [][\A p \in Procs :
         (req[p].pc = "login_send_email" /\ req'[p].pc = "idle"
            /\ resp'.emailed = "Ok") =>
            /\ resp'.kind = "login" /\ resp'.status = 206
            /\ resp'.resp_id # UnknownId
            /\ resp'.email \in DOMAIN codes'
            /\ codes'[resp'.email][1] = resp'.resp_id]_vars

\* The remove_code calls that have succeeded for an email: those of the
\* verify-2fa requests answered 200 and of those about to issue their token.
RECURSIVE SumVerified(_)
SumVerified(ids) ==
    IF ids = {} THEN 0
    ELSE LET id == CHOOSE i \in ids : TRUE
         IN  verified[id] + SumVerified(ids \ {id})

Removals(e) ==
    SumVerified({id \in DOMAIN verified :
                   \E c \in challenges : c[1] = e /\ c[2] = id})
      + Cardinality({p \in Procs : req[p].pc = "verify_issue" /\ req[p].email = e})

\* C10: a correct login for a 2FA identity while a challenge is outstanding is
\* answered with the conflict error, with no email dispatched and no attempt
\* id or token returned, and its add_code leaves the store unchanged, also
\* when the outstanding record is the one of a login still in progress: of the
\* logins for one email at most one inserts a challenge, and one more for each
\* remove_code that has succeeded for the email since.
C10_ConflictWhileOutstanding ==
    /\ [](/\ (resp.kind = "login" /\ resp.prior) =>
                /\ resp.pc = "done" /\ resp.status = 409
                /\ resp.error = "UserAlreadyExists"
                /\ resp.store_result = "CodeAlreadyExists"
                /\ resp.emailed = ""
                /\ resp.resp_id = UnknownId
                /\ resp.token = EmptyToken /\ resp.jar = resp.jar_in
          /\ \A e \in EmailInputs :
                Cardinality({c \in challenges : c[1] = e}) <= 1 + Removals(e))
    /\ [][\A p \in Procs :
            (req[p].pc = "login_add_code" /\ req'[p].pc # "login_add_code"
               /\ req[p].email \in DOMAIN codes) =>
               (codes' = codes /\ challenges' = challenges /\ resp'.prior)]_vars

C10_Witness ==
    /\ resp.kind = "login" /\ resp.prior /\ resp.status = 409
    /\ \E p \in Procs : req[p].pc = "login_send_email" /\ req[p].email = resp.email

\* C11: a login with a well-formed email that is not registered, or with a
\* registered email and a well-formed password that is not the stored one, is
\* answered 401 with no token and no cookie, and leaves the three stores and
\* the challenges as they were.
C11_LoginRejected ==
    [][\A p \in Procs, e \in EmailInputs, pw \in PasswordInputs :
         (/\ Started(p, "login") /\ e = Taken(p).email
          /\ handle_login(p, e, pw, {})
          /\ Email_parse(e).ok /\ Password_parse(pw).ok
          /\ (e \notin DOMAIN users \/ users[e].password # pw)) =>
            /\ req'[p] = Idle
            /\ resp'.kind = "login" /\ resp'.status = 401
            /\ resp'.token = EmptyToken /\ resp'.jar = resp'.jar_in
            /\ resp'.resp_id = UnknownId
            /\ users' = users /\ codes' = codes /\ banned_tokens' = banned_tokens
            /\ challenges' = challenges /\ minted' = minted]_vars

C11_Witness ==
    /\ resp.kind = "login" /\ resp.status = 401
    /\ resp.email \in DOMAIN users
    /\ codes = EmptyMap /\ minted = {}

\* C12: a login with well-formed, correct credentials for an identity that
\* does not require 2FA is answered 200 with the token cookie set, inserts no
\* challenge record and dispatches no email.
C12_LoginWithout2FA ==
    [][\A p \in Procs, e \in EmailInputs, pw \in PasswordInputs :
         (/\ Started(p, "login") /\ e = Taken(p).email
          /\ handle_login(p, e, pw, {})
          /\ Email_parse(e).ok /\ Password_parse(pw).ok
          /\ e \in DOMAIN users /\ users[e].password = pw
          /\ ~users[e].requires_2fa) =>
            /\ req'[p] = Idle
            /\ resp'.kind = "login" /\ resp'.status = 200
            /\ resp'.token = generate_auth_cookie(e, now)
            /\ resp'.jar = {resp'.token}
            /\ resp'.emailed = "" /\ resp'.resp_id = UnknownId
            /\ codes' = codes /\ challenges' = challenges]_vars

C12_Witness ==
    /\ resp.kind = "login" /\ resp.status = 200
    /\ resp.email \in DOMAIN users /\ ~users[resp.email].requires_2fa
    /\ resp.token \in resp.jar /\ resp.token.sub = resp.email
    /\ resp.emailed = "" /\ codes = EmptyMap

\* C13: signup/login round trip: a login with an email and password for which
\* a signup was answered 201 is taken as correct credentials (200 with the
\* token, or on to the 2FA branch), never answered 400 or 401.
C13_SignupLoginRoundTrip ==
    [][\A p \in Procs, e \in EmailInputs, pw \in RawPasswords :
         (/\ Started(p, "login")
          /\ handle_login(p, e, pw, {})
          /\ e \in DOMAIN created /\ created[e][1].password = pw) =>
            \/ req'[p].pc = "login_add_code"
            \/ /\ req'[p] = Idle
               /\ resp'.kind = "login" /\ resp'.status = 200
               /\ resp'.token \in resp'.jar]_vars

\* C14: a logout whose token cookie is non-empty and passes validation goes on
\* to ban_token, and when the token is not yet in the ledger there it is
\* answered 200, the token is in the ledger afterwards (and nothing else is
\* added), and the client's token cookie is cleared.
C14_LogoutSuccess ==
    [][\A p \in Procs :
         /\ \A jar \in JarInputs :
              (/\ Started(p, "logout")
               /\ handle_logout(p, jar)
               /\ \E t \in jar : /\ t # EmptyToken
                                 /\ validate_token(banned_tokens, t, now) = "Ok") =>
                 /\ req'[p].pc = "logout_ban_token"
                 /\ req'[p].token \in jar
                 /\ banned_tokens' = banned_tokens
         /\ (/\ req[p].pc = "logout_ban_token" /\ req'[p] = Idle
             /\ req[p].token \notin banned_tokens) =>
                 /\ resp'.kind = "logout" /\ resp'.status = 200
                 /\ resp'.token = req[p].token
                 /\ banned_tokens' = banned_tokens \cup {resp'.token}
                 /\ resp'.jar_in = {resp'.token} /\ resp'.jar = {}]_vars

C14_Witness ==
    /\ resp.kind = "logout" /\ resp.status = 200
    /\ resp.jar_in = {resp.token} /\ resp.jar = {}
    /\ resp.token \in banned_tokens /\ ~resp.prior

\* C15: logout failure paths: without a token cookie the answer is
\* MissingToken (400); with an empty token or one that fails validation it is
\* InvalidToken (401); the ledger and the cookie jar stay as they were.
C15_LogoutFailures ==
    [][\A p \in Procs, jar \in JarInputs :
         (Started(p, "logout") /\ handle_logout(p, jar)) =>
            /\ jar = {} =>
                 /\ req'[p] = Idle /\ resp'.kind = "logout"
                 /\ resp'.status = 400 /\ resp'.error = "MissingToken"
                 /\ resp'.jar = jar /\ banned_tokens' = banned_tokens
            /\ (jar # {} /\ \A t \in jar :
                  \/ t = EmptyToken
                  \/ validate_token(banned_tokens, t, now) # "Ok") =>
                 /\ req'[p] = Idle /\ resp'.kind = "logout"
                 /\ resp'.status = 401 /\ resp'.error = "InvalidToken"
                 /\ resp'.jar = jar /\ banned_tokens' = banned_tokens]_vars

C15_Witness ==
    /\ resp.kind = "logout" /\ resp.status = 401 /\ resp.error = "InvalidToken"
    /\ resp.token.form = "jwt" /\ now > resp.token.exp
    /\ resp.token \notin banned_tokens /\ resp.jar = {resp.token}

\* C16: a logout presenting a token that is in the ledger, at validation or
\* at ban_token, is answered InvalidToken (401), never 200, and the cookie is
\* not cleared.
C16_LogoutOfBannedToken ==
    (resp.kind = "logout" /\ resp.prior) =>
       /\ resp.pc = "done" /\ resp.status = 401 /\ resp.error = "InvalidToken"
       /\ resp.jar = resp.jar_in /\ resp.jar = {resp.token}
       /\ resp.token \in banned_tokens

C16_Witness ==
    /\ resp.kind = "logout" /\ resp.prior /\ resp.status = 401
    /\ resp.store_result = "" /\ resp.jar = {resp.token}

\* C17: two logouts in a row by one client: the logout sent with the cookie
\* jar the client holds after a logout answered 200 is answered 400
\* MissingToken.
C17_LogoutTwice ==
    [][\A p \in Procs, jar \in JarInputs :
         (/\ Started(p, "logout")
          /\ handle_logout(p, jar)
          /\ resp.kind = "logout" /\ resp.status = 200
          /\ jar = resp.jar) =>
            /\ req'[p] = Idle /\ resp'.kind = "logout"
            /\ resp'.status = 400 /\ resp'.error = "MissingToken"]_vars

C17_Witness ==
    /\ resp.kind = "logout" /\ resp.status = 400 /\ resp.error = "MissingToken"
    /\ resp.jar_in = {} /\ banned_tokens # {}

\* C18: a well-formed verify-2fa whose email has no record, or whose attempt id
\* or code differs from the record, is answered 401 with no token and leaves
\* the store as it was; a verify-2fa with the pair of the record then passes
\* the comparison, its remove_code succeeds while the record is there, and it
\* is answered 200 with the token.
C18_Verify2FARejected ==
    [][\A p \in Procs :
         /\ Started(p, "verify_2fa") =>
              LET e == Taken(p).email
                  id == Taken(p).login_attempt_id
                  c == Taken(p).code
              IN handle_verify_2fa(p, e, id, c, {}) =>
                    /\ (/\ Email_parse(e).ok /\ LoginAttemptId_parse(id)
                        /\ TwoFACode_parse(c)
                        /\ (e \notin DOMAIN codes \/ codes[e] # <<id, c>>)) =>
                          /\ req'[p] = Idle
                          /\ resp'.kind = "verify_2fa" /\ resp'.status = 401
                          /\ resp'.token = EmptyToken /\ resp'.jar = resp'.jar_in
                          /\ codes' = codes /\ minted' = minted
                    /\ (e \in DOMAIN codes /\ codes[e] = <<id, c>>) =>
                          /\ req'[p].pc = "verify_remove_code"
                          /\ codes' = codes
         /\ (/\ req[p].pc = "verify_remove_code" /\ req'[p] # req[p]
             /\ req[p].email \in DOMAIN codes) =>
                req'[p].pc = "verify_issue"
         /\ (req[p].pc = "verify_issue" /\ req'[p] = Idle) =>
                /\ resp'.kind = "verify_2fa" /\ resp'.status = 200
                /\ resp'.token = generate_auth_cookie(req[p].email, now)
                /\ resp'.jar = {resp'.token}]_vars

C18_Witness ==
    /\ resp.kind = "verify_2fa" /\ resp.status = 401 /\ ~resp.prior
    /\ resp.login_attempt_id \in returned
    /\ resp.email \in DOMAIN codes
    /\ codes[resp.email][1] = resp.login_attempt_id
    /\ codes[resp.email][2] # resp.code

\* C19: stale challenge: once a challenge has been consumed by a verify-2fa
\* answered 200 and a new challenge is in the store for the email, a verify-2fa
\* with the old pair is answered 401 and the new record stays in the store.
C19_StaleChallenge ==
    [][\A p \in Procs :
         Started(p, "verify_2fa") =>
            \A c \in Consumed :
               (c[1] \in DOMAIN codes /\ handle_verify_2fa(p, c[1], c[2], c[3], {})) =>
                  /\ req'[p] = Idle
                  /\ resp'.kind = "verify_2fa" /\ resp'.status = 401
                  /\ resp'.token = EmptyToken
                  /\ codes' = codes]_vars

C19_Witness ==
    /\ resp.kind = "verify_2fa" /\ resp.prior /\ resp.status = 401
    /\ resp.email \in DOMAIN codes
    /\ codes[resp.email][1] \in returned
    /\ codes[resp.email][1] # resp.login_attempt_id

\* C20: ordering inside the 2FA flows: a login reaches the email dispatch only
\* with add_code answered Ok for an email that had no record, never after a
\* rejection; a verify-2fa reaches the token only with its remove_code
\* completed, and the token is minted by a request that stands there.
C20_FlowOrdering ==
    /\ [](/\ \A p \in Procs :
               /\ req[p].pc = "login_send_email" =>
                     /\ req[p].store_result = "Ok" /\ ~req[p].prior
                     /\ <<req[p].email, req[p].login_attempt_id, req[p].code>>
                           \in challenges
               /\ req[p].pc = "verify_issue" =>
                     /\ req[p].store_result = "Ok"
                     /\ req[p].removed # NoStored
                     /\ req[p].token = EmptyToken
          /\ (resp.kind = "login" /\ resp.emailed # "") =>
                (resp.store_result = "Ok" /\ ~resp.prior)
          /\ (resp.kind = "login" /\ resp.store_result = "CodeAlreadyExists") =>
                resp.emailed = ""
          /\ (resp.kind = "verify_2fa" /\ resp.token # EmptyToken) =>
                (resp.store_result = "Ok" /\ resp.removed # NoStored)
          /\ (resp.kind = "verify_2fa" /\ resp.pc = "panicked") =>
                (resp.token = EmptyToken /\ resp.status = 0))
    /\ [][(minted' # minted /\ resp'.kind = "verify_2fa") =>
            \E p \in Procs :
               /\ req[p].pc = "verify_issue" /\ req'[p] = Idle
               /\ req[p].store_result = "Ok"
               /\ req[p].email \notin DOMAIN codes
                    \/ codes[req[p].email] # req[p].removed]_vars

C20_Witness ==
    \E p, q \in Procs :
       /\ req[p].pc = "login_send_email"
       /\ req[q].pc = "verify_issue" /\ req[q].email = req[p].email

\* C21: the signing secret fails fast: with JWT_SECRET unset or empty the
\* process never comes to serve, no request is received, and no request task
\* panics on the secret.
C21_FailFastSecret ==
    ~get_env_var(jwt_secret).ok =>
        /\ server # "serving"
        /\ started = 0
        /\ resp.pc # "panicked"

\* C22: a token issued at time t carries the expiry t + TOKEN_TTL_SECONDS
\* (600 s); the clock never goes back; and a token passes the validation of
\* logout at time t' only if t' is not past its expiry, so that an expired
\* token is rejected (401) at every later time.
C22_TokenLifetime ==
    /\ [](TOKEN_TTL_SECONDS = 600)
    /\ [][/\ now' >= now
          /\ \A t \in minted' \ minted : t.exp = now + TOKEN_TTL_SECONDS
          /\ \A p \in Procs :
               (Started(p, "logout") /\ Taken(p).token.form = "jwt") =>
                  /\ req'[p].pc = "logout_ban_token" => now <= Taken(p).token.exp
                  /\ now > Taken(p).token.exp =>
                        (resp'.kind = "logout" /\ resp'.status = 401
                           /\ banned_tokens' = banned_tokens)]_vars

C22_Witness ==
    /\ resp.kind = "logout" /\ resp.status = 401
    /\ resp.token.form = "jwt" /\ resp.token \in minted
    /\ resp.token \notin banned_tokens
    /\ now > resp.token.exp

\* C23: a 2FA login whose email dispatch fails is answered 500
\* UnexpectedError: the response carries no attempt id and no token, the jar
\* is as it came, and the id of the challenge is never handed out.
C23_EmailFailure ==
    (resp.kind = "login" /\ resp.emailed = "Err") =>
        /\ resp.pc = "done"
        /\ resp.status = 500 /\ resp.error = "UnexpectedError"
        /\ resp.resp_id = UnknownId
        /\ resp.login_attempt_id \notin returned
        /\ resp.token = EmptyToken
        /\ resp.jar = resp.jar_in

C23_Witness ==
    /\ resp.kind = "login" /\ resp.emailed = "Err" /\ resp.status = 500
    /\ resp.login_attempt_id # UnknownId
    /\ \E c \in challenges : c[2] = resp.login_attempt_id

\* C24: identities are immutable: the record add_user stored for an email is
\* the one every later state holds (what get_user reads); no step of a
\* signup, login, verify-2fa or logout request changes or deletes a stored
\* identity; and a duplicate signup answered 409 leaves the store unchanged.
C24_IdentityImmutable ==
    /\ [](\A e \in DOMAIN created :
            e \in DOMAIN users /\ users[e] = created[e][1])
    /\ [][/\ \A e \in DOMAIN users :
               e \in DOMAIN users' /\ users'[e] = users[e]
          /\ (resp' # resp /\ resp'.kind = "signup" /\ resp'.status = 409) =>
               users' = users]_vars

C24_Witness ==
    /\ resp.kind = "signup" /\ resp.status = 409
    /\ resp.email \in DOMAIN users
    /\ users[resp.email] = created[resp.email][1]
    /\ resp.requires_2fa # users[resp.email].requires_2fa

\* C25: a login whose email or password is format-invalid, and a verify-2fa
\* whose email, attempt id or code is format-invalid, is answered 400
\* "Invalid credentials" in its first step, before any lock is taken: the
\* stores are unchanged, no challenge is created and no email is dispatched.
C25_InvalidFormatRejected ==
    [][\A p \in Procs :
         /\ \A e \in EmailInputs, pw \in PasswordInputs :
              (/\ Started(p, "login") /\ e = Taken(p).email
               /\ handle_login(p, e, pw, {})
               /\ (~Email_parse(e).ok \/ ~Password_parse(pw).ok)) =>
                 /\ req'[p] = Idle
                 /\ resp'.kind = "login" /\ resp'.status = 400
                 /\ MessageOf(resp'.error) = "Invalid credentials"
                 /\ resp'.emailed = "" /\ resp'.token = EmptyToken
                 /\ users' = users /\ codes' = codes
                 /\ banned_tokens' = banned_tokens
                 /\ challenges' = challenges /\ minted' = minted
         /\ Started(p, "verify_2fa") =>
              LET e == Taken(p).email
                  id == Taken(p).login_attempt_id
                  c == Taken(p).code
              IN (/\ handle_verify_2fa(p, e, id, c, {})
                  /\ (~Email_parse(e).ok \/ id = MalformedId
                        \/ ~TwoFACode_parse(c))) =>
                    /\ req'[p] = Idle
                    /\ resp'.kind = "verify_2fa" /\ resp'.status = 400
                    /\ MessageOf(resp'.error) = "Invalid credentials"
                    /\ resp'.token = EmptyToken
                    /\ users' = users /\ codes' = codes
                    /\ banned_tokens' = banned_tokens
                    /\ challenges' = challenges /\ minted' = minted]_vars

C25_Witness ==
    /\ resp.kind = "verify_2fa" /\ resp.status = 400
    /\ resp.login_attempt_id = MalformedId
    /\ Email_parse(resp.email).ok /\ TwoFACode_parse(resp.code)
    /\ resp.email \in DOMAIN codes

\* the length of a string in Unicode scalars, and the chars it has
RECURSIVE Scalars(_)
Scalars(s) == IF s = <<>> THEN 0 ELSE s[1][2] + Scalars(Tail(s))
IsUpper(c) == c \in AsciiUppercase
IsLower(c) == c \in AsciiLowercase \cup {"U+00E4"}
IsDigit09(c) == \E k \in 1..10 : AsciiDigits[k] = c
HasUpper(s) == \E i \in 1..Len(s) : IsUpper(s[i][1])
HasLower(s) == \E i \in 1..Len(s) : IsLower(s[i][1])
HasDigit09(s) == \E i \in 1..Len(s) : IsDigit09(s[i][1])

PasswordRules ==
    <<"Empty", "TooShort", "TooLong", "MissingUppercase", "MissingLowercase",
      "MissingDigit">>
Violates(s, rule) ==
    CASE rule = "Empty" -> s = <<>>
      [] rule = "TooShort" -> Scalars(s) < 8
      [] rule = "TooLong" -> Scalars(s) > 128
      [] rule = "MissingUppercase" -> ~HasUpper(s)
      [] rule = "MissingLowercase" -> ~HasLower(s)
      [] rule = "MissingDigit" -> ~HasDigit09(s)

\* C27: the error of Password::parse is the first rule the input violates in
\* the order Empty, TooShort, TooLong, MissingUppercase, MissingLowercase,
\* MissingDigit, whatever later rules it violates too.
C27_PasswordFirstFailure ==
    (call.fn = "Password::parse" /\ ~call.ret.ok) =>
        \E i \in 1..Len(PasswordRules) :
           /\ call.ret.err = PasswordRules[i]
           /\ Violates(call.arg, PasswordRules[i])
           /\ \A j \in 1..(i - 1) : ~Violates(call.arg, PasswordRules[j])

C27_Witness ==
    /\ call.fn = "Password::parse"
    /\ Violates(call.arg, "MissingUppercase") /\ Violates(call.arg, "MissingDigit")
    /\ call.ret.err = "MissingUppercase"

\* the string without its leading and trailing whitespace
Trimmed(s) ==
    LET I == {i \in 1..Len(s) : s[i][1] # " "}
    IN  IF I = {} THEN <<>>
        ELSE SubSeq(s, CHOOSE i \in I : \A j \in I : i <= j,
                       CHOOSE i \in I : \A j \in I : j <= i)

\* C28: Email::parse normalises idempotently: where it succeeds its value is
\* the trimmed input, and Email::parse of that value succeeds with the same
\* value; an empty or whitespace-only input fails with Empty.
C28_EmailIdempotent ==
    call.fn = "Email::parse" =>
        /\ call.ret.ok =>
              /\ call.ret.value = Trimmed(call.arg)
              /\ Email_parse_str(call.ret.value).ok
              /\ Email_parse_str(call.ret.value).value = call.ret.value
        /\ Trimmed(call.arg) = <<>> =>
              (~call.ret.ok /\ call.ret.err = "Empty")

C28_Witness ==
    /\ call.fn = "Email::parse" /\ call.ret.ok
    /\ call.ret.value # call.arg
    /\ call.arg[1][1] = " " /\ call.arg[Len(call.arg)][1] = " "

\* the number a string of digits 0-9 denotes
RECURSIVE Denotes(_)
Denotes(s) ==
    IF s = <<>> THEN 0
    ELSE 10 * Denotes(SubSeq(s, 1, Len(s) - 1))
         + (CHOOSE k \in 0..9 : AsciiDigits[k + 1] = s[Len(s)][1])

\* C29: TwoFACode::parse succeeds iff the input is exactly six chars, all of
\* them digits 0-9; the value of TwoFACode::default() is the number drawn
\* from [0, 999999], zero-padded to six digits, and TwoFACode::parse accepts it.
C29_TwoFACodeParse ==
    /\ call.fn = "TwoFACode::parse" =>
          (call.ret.ok <=>
              /\ Scalars(call.arg) = 6
              /\ \A i \in 1..Len(call.arg) : IsDigit09(call.arg[i][1]))
    /\ call.fn = "TwoFACode::default" =>
          /\ call.rand \in 0..999999
          /\ Scalars(call.ret.value) = 6
          /\ \A i \in 1..Len(call.ret.value) :
                IsDigit09(call.ret.value[i][1]) /\ call.ret.value[i][2] = 1
          /\ Denotes(call.ret.value) = call.rand
          /\ TwoFACode_parse_str(call.ret.value).ok

C29_Witness ==
    /\ call.fn = "TwoFACode::default" /\ call.rand = 42
    /\ call.ret.value[1][1] = "0"
    /\ TwoFACode_parse_str(call.ret.value).ok

\* C30: the remove_code of verify-2fa never fails: whatever the interleaving
\* of login and verify-2fa requests, it answers Ok and the task of no
\* verify-2fa request panics on its result.
C30_RemoveCodeInfallible ==
    resp.kind = "verify_2fa" =>
        /\ resp.store_result \in {"", "Ok"}
        /\ resp.pc # "panicked"

\* C31: a challenge record leaves the store only through the remove_code of a
\* verify-2fa request that read and matched exactly that record: no
\* verify-2fa removes a record other than the one it compared, such as a newer
\* challenge issued for the email in between.
C31_RemovesTheMatchedRecord ==
    [][\A e \in DOMAIN codes :
         e \notin DOMAIN codes' =>
            \E p \in Procs :
               /\ req[p].pc = "verify_remove_code" /\ req'[p].pc = "verify_issue"
               /\ req[p].email = e
               /\ req[p].stored = codes[e]]_vars

\* C32: a 2FA login that ends in an error leaves the code store as it was
\* before the request: a record is in the store only if a 206 response has
\* carried its attempt id, or if the login that inserted it has yet to hear
\* from the email client.
C32_NoRecordWithoutResponse ==
    \A e \in DOMAIN codes :
       \/ codes[e][1] \in returned
       \/ \E p \in Procs :
             /\ req[p].pc = "login_send_email"
             /\ req[p].email = e
             /\ req[p].login_attempt_id = codes[e][1]

\* C33: of the logouts that present one valid token and have all passed
\* validation before any of them reached ban_token, the one that reaches
\* ban_token while the token is not in the ledger is answered 200 and puts it
\* there; every other one finds it there and is answered InvalidToken (401)
\* without changing the ledger; the ledger never loses a token, so no second
\* 200 can follow for that token.
C33_ConcurrentLogout ==
    [][/\ banned_tokens \subseteq banned_tokens'
       /\ \A p \in Procs :
            (req[p].pc = "logout_ban_token" /\ req'[p] = Idle) =>
               LET t == req[p].token
                   Waiting == {q \in Procs \ {p} :
                                 /\ req[q].pc = "logout_ban_token"
                                 /\ req[q].token = t}
               IN /\ resp'.kind = "logout" /\ resp'.token = t
                  /\ t \in banned_tokens'
                  /\ \A q \in Waiting : req'[q] = req[q]
                  /\ IF t \in banned_tokens
                     THEN /\ resp'.status = 401 /\ resp'.error = "InvalidToken"
                          /\ banned_tokens' = banned_tokens
                     ELSE /\ resp'.status = 200
                          /\ banned_tokens' = banned_tokens \cup {t}]_vars

C33_Witness ==
    /\ resp.kind = "logout" /\ resp.status = 401
    /\ resp.store_result = "TokenAlreadyBanned"
    /\ \E q \in Procs : /\ req[q].pc = "logout_ban_token"
                        /\ req[q].token = resp.token

\* every request in flight leaves its task in the end: no task waits for a
\* lock for ever
EveryRequestEnds ==
    \A p \in Procs : (req[p].pc # "idle") ~> (req[p].pc = "idle")

\* C34: under fair scheduling every signup, login, verify-2fa and logout
\* request ends, whatever the interleaving (no task waits for a lock for
\* ever), and it ends with a response.
C34_DeadlockFreedom ==
    /\ EveryRequestEnds
    /\ [][\A p \in Procs :
            (req[p].pc # "idle" /\ req'[p].pc = "idle") => resp'.pc = "done"]_vars

\* C35: a well-formed verify-2fa that fails because the email has no record,
\* because the attempt id differs from the record or because the code differs
\* from it gets one and the same response whatever the cause: status 401, the
\* body "Unauthorized", no token and the cookie jar it came with.
C35_SameResponseForEveryCause ==
    [][\A p \in Procs :
         Started(p, "verify_2fa") =>
            LET e == Taken(p).email
                id == Taken(p).login_attempt_id
                c == Taken(p).code
            IN (/\ handle_verify_2fa(p, e, id, c, {})
                /\ Email_parse(e).ok /\ LoginAttemptId_parse(id) /\ TwoFACode_parse(c)
                /\ \/ e \notin DOMAIN codes
                   \/ codes[e][1] # id
                   \/ codes[e][2] # c) =>
                  /\ resp'.pc = "done"
                  /\ <<resp'.status, MessageOf(resp'.error)>> = <<401, "Unauthorized">>
                  /\ resp'.token = EmptyToken /\ resp'.jar = resp'.jar_in]_vars

C35_Witness ==
    /\ resp.kind = "verify_2fa" /\ resp.status = 401
    /\ MessageOf(resp.error) = "Unauthorized"
    /\ resp.login_attempt_id \in returned
    /\ resp.email \in DOMAIN users /\ resp.email \notin DOMAIN codes

\* the requests that present a token to validation: a logout with a token
\* cookie and a verify-token
PresentsToken(r) ==
    \/ r.kind = "logout" /\ r.jar_in # {}
    \/ r.kind = "verify_token"

\* C36: a request whose token fails validation (a token in the ledger, an
\* expired one, a malformed or wrongly signed one) is answered 401
\* InvalidToken, whatever the cause and whichever route it was presented to.
C36_ValidationFailureIs401 ==
    [][\A p \in Procs :
         (Started(p, "logout") \/ Started(p, "verify_token")) =>
            LET r == Taken(p)
            IN (/\ PresentsToken(r)
                /\ validate_token(banned_tokens, r.token, now) # "Ok") =>
                  /\ r.pc = "done"
                  /\ r.status = 401 /\ r.error = "InvalidToken"]_vars

\* the status written on each AuthAPIError variant (domain/error.rs:13-30)
Documented ==
    {<<"InvalidCredentials", 400>>, <<"MissingToken", 400>>,
     <<"Unauthorized", 401>>, <<"InvalidToken", 401>>,
     <<"UserNotFound", 404>>, <<"UserAlreadyExists", 409>>,
     <<"UnprocessableContent", 422>>, <<"UnexpectedError", 500>>}

\* C37: the error mapping is a fixed function: each variant of
\* UserStoreError, TwoFACodeStoreError, LogoutError and TokenError converts to
\* one AuthAPIError variant, each AuthAPIError variant has the status written
\* on it, and a request that ends on an error is answered with that status,
\* never with 200, 201 or 206.
C37_ErrorMapping ==
    /\ \A e \in UserStoreErrors : FromUserStoreError(e) \in AuthAPIErrors
    /\ \A e \in TwoFACodeStoreErrors : FromTwoFACodeStoreError(e) \in AuthAPIErrors
    /\ \A e \in LogoutErrors : FromLogoutError(e) \in AuthAPIErrors
    /\ \A e \in TokenErrors : FromTokenError(e) \in AuthAPIErrors
    /\ {<<e, StatusOf(e)>> : e \in AuthAPIErrors} = Documented
    /\ resp.error # "" =>
          /\ resp.pc = "done"
          /\ resp.error \in AuthAPIErrors
          /\ <<resp.error, resp.status>> \in Documented
    /\ (resp.pc = "done" /\ resp.store_result \notin {"", "Ok"}) =>
          /\ resp.error # ""
          /\ resp.status \notin {200, 201, 206}

C37_Witness ==
    /\ resp.kind = "login" /\ resp.store_result = "CodeAlreadyExists"
    /\ resp.error = FromTwoFACodeStoreError("CodeAlreadyExists")
    /\ resp.status = 409

\* the two stores hold the same identities: the same emails, and for each the
\* same flag and a hash that verifies the password of the in-memory record
\* and no other
Conforms ==
    /\ DOMAIN pg.rows = DOMAIN users
    /\ \A e \in DOMAIN users :
          /\ pg.rows[e].email = users[e].email
          /\ pg.rows[e].requires_2fa = users[e].requires_2fa
          /\ pg.rows[e].password_hash[1] = "$argon2id"
          /\ \A pw \in StorePasswords :
                (pg.rows[e].password_hash[2] = pw) <=> (users[e].password = pw)

C39_CorruptedHashIs500 ==
    [][\A p \in Procs, e \in EmailInputs, pw \in PasswordInputs :
         (/\ Started(p, "login")
          /\ handle_login(p, e, pw, {})
          /\ Email_parse(e).ok /\ HashedPassword_parse(pw).ok
          /\ UserStore_validate_user(Email_parse(e).value, pw) = "UnexpectedError") =>
            /\ req'[p] = Idle /\ resp'.kind = "login"
            /\ resp'.status = 500 /\ resp'.error = "UnexpectedError"]_vars

\* C40: signup applies the format gate of the value types: a signup whose
\* email Email::parse rejects, or whose password Password::parse rejects, is
\* answered 400 InvalidCredentials and stores no identity.
C40_SignupFormatGate ==
    [][\A p \in Procs, e \in SignupEmails, pw \in RawPasswords, f \in BOOLEAN :
         (/\ Started(p, "signup")
          /\ handle_signup(p, e, pw, f)
          /\ (~Email_parse(e).ok \/ ~Password_parse(pw).ok)) =>
            /\ req'[p] = Idle /\ resp'.kind = "signup"
            /\ resp'.status = 400 /\ resp'.error = "InvalidCredentials"
            /\ users' = users]_vars

====
